---- MODULE Spec2Model ----
(***************************************************************************)
(* Model of the project planner MCP agent (src/src/index.ts): the MyMCP    *)
(* class, its KV-backed project / todo persistence and the tool handlers   *)
(* that init() registers.                                                  *)
(*                                                                         *)
(* The KV namespace is modelled as a map from key strings to JSON texts.   *)
(* Keys are built by string concatenation exactly as the template literals *)
(* (and the plain string literals) of the source build them.  A JSON text  *)
(* is modelled structurally: an object as the ordered list of its          *)
(* <<name, value>> members, an array as the list of its elements.          *)
(* A timestamp is the clock reading (milliseconds) that toISOString        *)
(* prints; a reading is the last one or the next millisecond, and the two  *)
(* new Date() of one object literal, with no await between them, read the  *)
(* same value.                                                             *)
(*                                                                         *)
(* In Spec and SpecTenants a tool call is one step: the handler runs from  *)
(* its first KV.get to its return with no other call in between, and a get *)
(* sees every earlier put and delete.  The response of a call is the .res  *)
(* of its handler operator; only the store, the registered tools, the ids  *)
(* handed out and the clock are state.                                     *)
(*                                                                         *)
(* In SpecSteps and SpecStops a step is one KV call of a handler together  *)
(* with the synchronous code up to its next await: SpecSteps interleaves   *)
(* two invocations of one owner at their awaits, SpecStops runs one        *)
(* invocation at a time and lets it stop for good at any await.  calls     *)
(* holds the position and the locals of each invocation, overlapped        *)
(* records that an invocation began while another was in flight; both keep *)
(* their initial value in the other specifications.                        *)
(*                                                                         *)
(* SpecStores applies the listing and deleting tools to every store a      *)
(* bounded set of records and index lists makes up, lists with ids that    *)
(* have no record and with repeated ids included.                          *)
(***************************************************************************)
EXTENDS Integers, Sequences, FiniteSets, TLC

VARIABLES
    KV,       \* PROJECT_PLANNER_STORE_WITH_AUTH: key string -> JSON text
    tools,    \* per login: the tool names registered on that session's server
    issued,   \* number of crypto.randomUUID() values handed out so far
    now,      \* the last reading of the wall clock that new Date() gave
    calls,    \* per call slot: the handler's position and its local variables
    overlapped  \* whether some call began while another was in flight

vars == <<KV, tools, issued, now, calls, overlapped>>

-----------------------------------------------------------------------------
(* Bounds *)

MaxIds == 3        \* crypto.randomUUID() calls per behaviour
MaxTenantIds == 2  \* the same, in the specification with two allowed logins
MaxClock == 1      \* largest clock reading

(* Program constants and input domains *)

ALLOWED_USERNAMES == {"hubiao1688", "ermao1688"}

\* the logins that open a session: the two allowed ones and one that is not
Logins == ALLOWED_USERNAMES \cup {"octocat"}

\* one allowed login and one that is not
Callers == {"ermao1688", "octocat"}

UUIDPool == <<"u1", "u2", "u3", "u4", "u5", "u6">>

randomUUID(n) == UUIDPool[n + 1]

IdArgs == {UUIDPool[i] : i \in 1..MaxIds}

BaselineTools == {"add", "userInfoOctokit"}

PrivilegedTools ==
    {"generateImage", "createProject", "get_project_list", "get_project",
     "delete_project", "create_todo", "update_todo", "delete_todo",
     "get_todo", "list_todos"}

Statuses == {"pending", "in_progress", "completed"}

(* An optional argument is the empty set (undefined) or a singleton. *)
Undefined == {}

Some(v) == {v}

\* a ?? b
Coalesce(opt, default) == IF opt = Undefined THEN default ELSE CHOOSE v \in opt : TRUE

-----------------------------------------------------------------------------
(* Key schema: the template literals of the source *)

\* (mutant) the record key without the owner
ProjectKeyUnscoped(projectId, login) == "project:" \o projectId

ProjectKey(projectId, login) == "project:" \o projectId \o ":user-" \o login

TodoListKey(projectId, login) == "project:" \o projectId \o ":user-" \o login \o ":todos"

TodoKey(login, todoId) == "todo:user-" \o login \o ":" \o todoId

\* the key getProjectList reads (a template literal)
ProjectListKey(login) == "project:user-" \o login \o ":list"

\* the key createProject and delete_project put the list to: a double-quoted
\* string, so the placeholder text is kept verbatim and login is not used
ProjectListPutKey(login) == "project:user-${this.props!.login}:list"

-----------------------------------------------------------------------------
(* JSON *)

ProjectFields == <<"id", "name", "description", "createdAt", "updatedAt">>

TodoFields ==
    <<"id", "projectId", "title", "description", "priority", "status",
      "createdAt", "updatedAt">>

\* JSON.stringify of an object whose own properties are, in order, fields
StringifyObject(obj, fields) ==
    [t |-> "obj", v |-> [i \in 1..Len(fields) |-> <<fields[i], obj[fields[i]]>>]]

\* JSON.stringify of an array whose elements are already printed
StringifyArray(elems) == [t |-> "arr", v |-> elems]

\* JSON.parse: an array text gives its elements, an object text the record
\* of its members (the last member of a name wins)
JSONparse(text) ==
    IF text.t = "arr"
    THEN text.v
    ELSE LET m == text.v
             names == {m[i][1] : i \in DOMAIN m}
             pos(n) == CHOOSE i \in DOMAIN m :
                         m[i][1] = n /\ \A j \in DOMAIN m : m[j][1] = n => j <= i
         IN [n \in names |-> m[pos(n)][2]]

\* a plain message text
Message(s) == [t |-> "msg", v |-> s]

-----------------------------------------------------------------------------
(* KVNamespace *)

KVhas(kv, key) == key \in DOMAIN kv

KVput(kv, key, text) == [k \in DOMAIN kv \cup {key} |-> IF k = key THEN text ELSE kv[k]]

KVdelete(kv, key) == [k \in DOMAIN kv \ {key} |-> kv[k]]

EmptyKV == [k \in {} |-> Message("")]

(* Responses: a returned content text, or a raised Error *)
Returned(text) == [raised |-> FALSE, text |-> text]

Raised(s) == [raised |-> TRUE, text |-> Message(s)]

Out(kv, res) == [kv |-> kv, res |-> res]

-----------------------------------------------------------------------------
(* Private helpers of MyMCP *)

getProjectList(kv, login) ==
    IF KVhas(kv, ProjectListKey(login)) THEN JSONparse(kv[ProjectListKey(login)]) ELSE <<>>

\* (mutant) the todo list read from the key of the layout without owners
getTodoListLegacyKey(kv, login, projectId) ==
    LET key == "project:" \o projectId \o ":todo:list"
    IN IF KVhas(kv, key) THEN JSONparse(kv[key]) ELSE <<>>

getTodoList(kv, login, projectId) ==
    IF KVhas(kv, TodoListKey(projectId, login))
    THEN JSONparse(kv[TodoListKey(projectId, login)])
    ELSE <<>>

\* (mutant) the loop is left at the first id that does not resolve
RECURSIVE getTodosUntilMiss(_, _, _)
getTodosUntilMiss(kv, login, todoList) ==
    IF todoList = <<>>
    THEN <<>>
    ELSE LET todoKey == TodoKey(login, Head(todoList))
         IN IF KVhas(kv, todoKey)
            THEN <<JSONparse(kv[todoKey])>> \o getTodosUntilMiss(kv, login, Tail(todoList))
            ELSE <<>>

\* the loop of getTodosByProject: the parsed Todo of each id that resolves
RECURSIVE getTodos(_, _, _)
getTodos(kv, login, todoList) ==
    IF todoList = <<>>
    THEN <<>>
    ELSE LET todoKey == TodoKey(login, Head(todoList))
             rest == getTodos(kv, login, Tail(todoList))
         IN IF KVhas(kv, todoKey) THEN <<JSONparse(kv[todoKey])>> \o rest ELSE rest

getTodosByProject(kv, login, projectId) ==
    getTodos(kv, login, getTodoList(kv, login, projectId))

\* the loop of get_project_list: the parsed Project of each id that resolves
RECURSIVE getProjects(_, _, _)
getProjects(kv, login, projectList) ==
    IF projectList = <<>>
    THEN <<>>
    ELSE LET projectKey == ProjectKey(Head(projectList), login)
             rest == getProjects(kv, login, Tail(projectList))
         IN IF KVhas(kv, projectKey) THEN <<JSONparse(kv[projectKey])>> \o rest ELSE rest

\* todoList.indexOf(id); splice(index, 1)
RemoveFirst(list, id) ==
    IF \E i \in DOMAIN list : list[i] = id
    THEN LET idx == CHOOSE i \in DOMAIN list :
                      list[i] = id /\ \A j \in DOMAIN list : list[j] = id => i <= j
         IN SubSeq(list, 1, idx - 1) \o SubSeq(list, idx + 1, Len(list))
    ELSE list

\* the private deleteTodo: rewrites the project's todo list without todoId
deleteTodo(kv, login, projectId, todoId) ==
    KVput(kv, TodoListKey(projectId, login),
          StringifyArray(RemoveFirst(getTodoList(kv, login, projectId), todoId)))

-----------------------------------------------------------------------------
(* Response texts *)

ProjectNotFound(projectId) == "Project with ID " \o projectId \o " not found"

TodoNotFound(todoId) == "Todo with ID " \o todoId \o " not found"

ProjectText(project) == StringifyObject(project, ProjectFields)

TodoText(todo) == StringifyObject(todo, TodoFields)

ProjectsText(projects) ==
    StringifyArray([i \in 1..Len(projects) |-> ProjectText(projects[i])])

TodosText(todos) == StringifyArray([i \in 1..Len(todos) |-> TodoText(todos[i])])

\* todos.filter(pred) for pred = (todo.status === status)
RECURSIVE FilterStatus(_, _)
FilterStatus(todos, status) ==
    IF todos = <<>>
    THEN <<>>
    ELSE IF Head(todos).status = status
         THEN <<Head(todos)>> \o FilterStatus(Tail(todos), status)
         ELSE FilterStatus(Tail(todos), status)

\* todoList.filter((id) => id !== todoId)
RECURSIVE FilterOut(_, _)
FilterOut(list, id) ==
    IF list = <<>>
    THEN <<>>
    ELSE IF Head(list) # id
         THEN <<Head(list)>> \o FilterOut(Tail(list), id)
         ELSE FilterOut(Tail(list), id)

-----------------------------------------------------------------------------
(* Tool handlers: each maps the store and the arguments to the store the   *)
(* call leaves and the response it gives.                                  *)

createProject(kv, login, name, description, projectId, t) ==
    LET project == [id |-> projectId, name |-> name,
                    description |-> Coalesce(description, ""),
                    createdAt |-> t, updatedAt |-> t]
        kv1 == KVput(kv, ProjectKey(projectId, login), ProjectText(project))
        projectList == Append(getProjectList(kv1, login), projectId)
        kv2 == KVput(kv1, ProjectListPutKey(login), StringifyArray(projectList))
    IN Out(kv2, Returned(ProjectText(project)))

\* (mutant) the list is pruned of the ids that did not resolve and put back
get_project_list_Repairing(kv, login) ==
    LET projects == getProjects(kv, login, getProjectList(kv, login))
        kept == [i \in 1..Len(projects) |-> projects[i].id]
    IN Out(KVput(kv, ProjectListKey(login), StringifyArray(kept)),
           Returned(ProjectsText(projects)))

get_project_list(kv, login) ==
    Out(kv, Returned(ProjectsText(getProjects(kv, login, getProjectList(kv, login)))))

get_project(kv, login, projectId) ==
    IF ~KVhas(kv, ProjectKey(projectId, login))
    THEN Out(kv, Returned(Message(ProjectNotFound(projectId))))
    ELSE LET project == JSONparse(kv[ProjectKey(projectId, login)])
             todos == getTodosByProject(kv, login, projectId)
         IN Out(kv, Returned(StringifyObject(
                    [project |-> ProjectText(project), todos |-> TodosText(todos)],
                    <<"project", "todos">>)))

\* for (const todo of todos) await this.deleteTodo(projectId, todo.id)
RECURSIVE deleteTodos(_, _, _, _)
deleteTodos(kv, login, projectId, todos) ==
    IF todos = <<>>
    THEN kv
    ELSE deleteTodos(deleteTodo(kv, login, projectId, Head(todos).id),
                     login, projectId, Tail(todos))

delete_project(kv, login, projectId) ==
    IF ~KVhas(kv, ProjectKey(projectId, login))
    THEN Out(kv, Returned(Message(ProjectNotFound(projectId))))
    ELSE LET todos == getTodosByProject(kv, login, projectId)
             kv1 == deleteTodos(kv, login, projectId, todos)
             kv2 == KVdelete(kv1, ProjectKey(projectId, login))
             projectList == RemoveFirst(getProjectList(kv2, login), projectId)
             kv3 == KVput(kv2, ProjectListPutKey(login), StringifyArray(projectList))
         IN Out(kv3, Returned(Message(
                    "Project with ID " \o projectId \o " and all its todos deleted")))

\* (mutant) the todo is written before the project is looked up
create_todo_WriteFirst(kv, login, projectId, title, description, priority, todoId, t) ==
    LET todo == [id |-> todoId, projectId |-> projectId, title |-> title,
                 description |-> Coalesce(description, ""),
                 priority |-> Coalesce(priority, "medium"),
                 status |-> "pending",
                 createdAt |-> t, updatedAt |-> t]
        kv1 == KVput(kv, TodoKey(login, todoId), TodoText(todo))
    IN IF ~KVhas(kv, ProjectKey(projectId, login))
       THEN Out(kv1, Returned(Message(ProjectNotFound(projectId))))
       ELSE LET todoList == Append(getTodoList(kv1, login, projectId), todoId)
                kv2 == KVput(kv1, TodoListKey(projectId, login), StringifyArray(todoList))
            IN Out(kv2, Returned(TodoText(todo)))

create_todo(kv, login, projectId, title, description, priority, todoId, t) ==
    IF ~KVhas(kv, ProjectKey(projectId, login))
    THEN Out(kv, Returned(Message(ProjectNotFound(projectId))))
    ELSE LET todo == [id |-> todoId, projectId |-> projectId, title |-> title,
                      description |-> Coalesce(description, ""),
                      priority |-> Coalesce(priority, "medium"),
                      status |-> "pending",
                      createdAt |-> t, updatedAt |-> t]
             kv1 == KVput(kv, TodoKey(login, todoId), TodoText(todo))
             todoList == Append(getTodoList(kv1, login, projectId), todoId)
             kv2 == KVput(kv1, TodoListKey(projectId, login), StringifyArray(todoList))
         IN Out(kv2, Returned(TodoText(todo)))

\* (mutant) an option left out falls back to create_todo's default
update_todo_Defaults(kv, login, todoId, title, description, status, priority, t) ==
    IF ~KVhas(kv, TodoKey(login, todoId))
    THEN Out(kv, Returned(Message(TodoNotFound(todoId))))
    ELSE LET old == JSONparse(kv[TodoKey(login, todoId)])
             todo == [old EXCEPT !.title = title,
                                 !.description = Coalesce(description, ""),
                                 !.status = Coalesce(status, "pending"),
                                 !.priority = Coalesce(priority, "medium"),
                                 !.updatedAt = t]
         IN Out(KVput(kv, TodoKey(login, todoId), TodoText(todo)),
                Returned(TodoText(todo)))

\* (mutant) the updated todo is also moved to the end of its project's Todo Index
update_todo_Reindexing(kv, login, todoId, title, description, status, priority, t) ==
    IF ~KVhas(kv, TodoKey(login, todoId))
    THEN Out(kv, Returned(Message(TodoNotFound(todoId))))
    ELSE LET old == JSONparse(kv[TodoKey(login, todoId)])
             todo == [old EXCEPT !.title = title,
                                 !.description = Coalesce(description, old.description),
                                 !.status = Coalesce(status, old.status),
                                 !.priority = Coalesce(priority, old.priority),
                                 !.updatedAt = t]
             kv1 == KVput(kv, TodoKey(login, todoId), TodoText(todo))
             todoList == Append(FilterOut(getTodoList(kv1, login, old.projectId), todoId),
                                todoId)
         IN Out(KVput(kv1, TodoListKey(old.projectId, login), StringifyArray(todoList)),
                Returned(TodoText(todo)))

update_todo(kv, login, todoId, title, description, status, priority, t) ==
    IF ~KVhas(kv, TodoKey(login, todoId))
    THEN Out(kv, Returned(Message(TodoNotFound(todoId))))
    ELSE LET old == JSONparse(kv[TodoKey(login, todoId)])
             todo == [old EXCEPT !.title = title,
                                 !.description = Coalesce(description, old.description),
                                 !.status = Coalesce(status, old.status),
                                 !.priority = Coalesce(priority, old.priority),
                                 !.updatedAt = t]
         IN Out(KVput(kv, TodoKey(login, todoId), TodoText(todo)),
                Returned(TodoText(todo)))

\* (mutant) the id is removed with indexOf and splice, as deleteTodo does
delete_todo_Splice(kv, login, todoId) ==
    IF ~KVhas(kv, TodoKey(login, todoId))
    THEN Out(kv, Raised(TodoNotFound(todoId)))
    ELSE LET todo == JSONparse(kv[TodoKey(login, todoId)])
             kv1 == deleteTodo(kv, login, todo.projectId, todoId)
             kv2 == KVdelete(kv1, TodoKey(login, todoId))
         IN Out(kv2, Returned(Message("Todo with ID " \o todoId \o " deleted")))

\* (mutant) the record is deleted and the Todo Index left as it is
delete_todo_RecordOnly(kv, login, todoId) ==
    IF ~KVhas(kv, TodoKey(login, todoId))
    THEN Out(kv, Raised(TodoNotFound(todoId)))
    ELSE Out(KVdelete(kv, TodoKey(login, todoId)),
             Returned(Message("Todo with ID " \o todoId \o " deleted")))

delete_todo(kv, login, todoId) ==
    IF ~KVhas(kv, TodoKey(login, todoId))
    THEN Out(kv, Raised(TodoNotFound(todoId)))
    ELSE LET todo == JSONparse(kv[TodoKey(login, todoId)])
             updatedTodoList == FilterOut(getTodoList(kv, login, todo.projectId), todoId)
             kv1 == KVput(kv, TodoListKey(todo.projectId, login),
                          StringifyArray(updatedTodoList))
             kv2 == KVdelete(kv1, TodoKey(login, todoId))
         IN Out(kv2, Returned(Message("Todo with ID " \o todoId \o " deleted")))

\* (mutant) the todo read from the key of the layout without owners
get_todo_LegacyKey(kv, login, todoId) ==
    LET key == "todo:" \o todoId
    IN IF ~KVhas(kv, key)
       THEN Out(kv, Raised(TodoNotFound(todoId)))
       ELSE Out(kv, Returned(TodoText(JSONparse(kv[key]))))

get_todo(kv, login, todoId) ==
    IF ~KVhas(kv, TodoKey(login, todoId))
    THEN Out(kv, Raised(TodoNotFound(todoId)))
    ELSE Out(kv, Returned(TodoText(JSONparse(kv[TodoKey(login, todoId)]))))

\* (mutant) "all" is taken for a status value
list_todos_AllIsAStatus(kv, login, projectId, status) ==
    IF ~KVhas(kv, ProjectKey(projectId, login))
    THEN Out(kv, Raised(ProjectNotFound(projectId)))
    ELSE LET todos == getTodosByProject(kv, login, projectId)
             shown == IF status # Undefined
                      THEN FilterStatus(todos, Coalesce(status, "all"))
                      ELSE todos
         IN Out(kv, Returned(TodosText(shown)))

\* status is undefined, "all" or one of Statuses
list_todos(kv, login, projectId, status) ==
    IF ~KVhas(kv, ProjectKey(projectId, login))
    THEN Out(kv, Raised(ProjectNotFound(projectId)))
    ELSE LET todos == getTodosByProject(kv, login, projectId)
             shown == IF status # Undefined /\ status # Some("all")
                      THEN FilterStatus(todos, Coalesce(status, "all"))
                      ELSE todos
         IN Out(kv, Returned(TodosText(shown)))

\* (mutant) every tool registered whatever the login
RegisteredToolsUngated(login) == BaselineTools \cup PrivilegedTools

\* the tools init() registers for a session whose props.login is login
RegisteredTools(login) ==
    BaselineTools \cup (IF login \in ALLOWED_USERNAMES THEN PrivilegedTools ELSE {})

-----------------------------------------------------------------------------
(* Arguments the callers supply *)

Names == {"Launch"}

ProjectDescriptions == {Some("v1")}

Titles == {"Write spec"}

NewTitles == {"Ship"}

\* create_todo: the optional description and priority
CreateOptions ==
    {[description |-> Undefined, priority |-> Some("high")]}

\* update_todo: the optional description, status and priority
UpdateOptions ==
    {[description |-> Undefined, status |-> Undefined, priority |-> Undefined],
     [description |-> Some(""), status |-> Some("completed"), priority |-> Some("low")]}

StatusFilters == {Undefined, Some("all")} \cup {Some(s) : s \in Statuses}

\* what new Date() may read when the clock last read t
ClockReads(t) == {u \in t..(t + 1) : u <= MaxClock}

-----------------------------------------------------------------------------
(* State machine *)

\* the handler invocations that may be in flight at once
Slots == {"c1", "c2"}

\* a slot no handler is running in
IdleCall ==
    [tool |-> "", pc |-> "done", login |-> "", projectId |-> "", id |-> "",
     list |-> <<>>, todos |-> <<>>, text |-> Message("")]

Init ==
    /\ KV = EmptyKV
    /\ tools = [login \in Logins |-> {}]
    /\ issued = 0
    /\ now = 0
    /\ calls = [c \in Slots |-> IdleCall]
    /\ overlapped = FALSE

\* the dispatch of a registered tool: the handler runs to completion and
\* leaves the store out.kv; out.res goes back to the caller
Call(login, tool, out) ==
    /\ tool \in tools[login]
    /\ KV' = out.kv
    /\ UNCHANGED <<tools, calls, overlapped>>

\* init(): registers the session's tools
InitSession(login) ==
    /\ tools[login] = {}
    /\ tools' = [tools EXCEPT ![login] = RegisteredTools(login)]
    /\ UNCHANGED <<KV, issued, now, calls, overlapped>>

AddCall(login) ==
    \E a \in {1}, b \in {2} :
        /\ Call(login, "add", Out(KV, Returned([t |-> "num", v |-> a + b])))
        /\ UNCHANGED <<issued, now>>

UserInfoOctokitCall(login) ==
    /\ Call(login, "userInfoOctokit", Out(KV, Returned(Message("getAuthenticated"))))
    /\ UNCHANGED <<issued, now>>

GenerateImageCall(login) ==
    /\ Call(login, "generateImage", Out(KV, Returned(Message("image/jpeg"))))
    /\ UNCHANGED <<issued, now>>

CreateProjectCall(login) ==
    \E name \in Names, description \in ProjectDescriptions, t \in ClockReads(now) :
        /\ issued < MaxIds
        /\ Call(login, "createProject",
                createProject(KV, login, name, description, randomUUID(issued), t))
        /\ issued' = issued + 1
        /\ now' = t

GetProjectListCall(login) ==
    /\ Call(login, "get_project_list", get_project_list(KV, login))
    /\ UNCHANGED <<issued, now>>

GetProjectCall(login) ==
    \E projectId \in IdArgs :
        /\ Call(login, "get_project", get_project(KV, login, projectId))
        /\ UNCHANGED <<issued, now>>

DeleteProjectCall(login) ==
    \E projectId \in IdArgs :
        /\ Call(login, "delete_project", delete_project(KV, login, projectId))
        /\ UNCHANGED <<issued, now>>

\* randomUUID() and new Date() are reached only past the not-found return
CreateTodoCall(login) ==
    \E projectId \in IdArgs, title \in Titles, opt \in CreateOptions :
      IF KVhas(KV, ProjectKey(projectId, login))
      THEN \E t \in ClockReads(now) :
             /\ issued < MaxIds
             /\ Call(login, "create_todo",
                     create_todo(KV, login, projectId, title, opt.description,
                                 opt.priority, randomUUID(issued), t))
             /\ issued' = issued + 1
             /\ now' = t
      ELSE /\ Call(login, "create_todo",
                   create_todo(KV, login, projectId, title, opt.description,
                               opt.priority, "", now))
           /\ UNCHANGED <<issued, now>>

UpdateTodoCall(login) ==
    \E todoId \in IdArgs, title \in NewTitles, opt \in UpdateOptions :
      \E t \in IF KVhas(KV, TodoKey(login, todoId)) THEN ClockReads(now) ELSE {now} :
        /\ Call(login, "update_todo",
                update_todo(KV, login, todoId, title, opt.description, opt.status,
                            opt.priority, t))
        /\ now' = t
        /\ UNCHANGED issued

DeleteTodoCall(login) ==
    \E todoId \in IdArgs :
        /\ Call(login, "delete_todo", delete_todo(KV, login, todoId))
        /\ UNCHANGED <<issued, now>>

GetTodoCall(login) ==
    \E todoId \in IdArgs :
        /\ Call(login, "get_todo", get_todo(KV, login, todoId))
        /\ UNCHANGED <<issued, now>>

ListTodosCall(login) ==
    \E projectId \in IdArgs, status \in StatusFilters :
        /\ Call(login, "list_todos", list_todos(KV, login, projectId, status))
        /\ UNCHANGED <<issued, now>>

\* one session owner (and one login outside the allow-list)
Next ==
    \E login \in Callers :
        \/ InitSession(login)
        \/ AddCall(login)
        \/ UserInfoOctokitCall(login)
        \/ GenerateImageCall(login)
        \/ CreateProjectCall(login)
        \/ GetProjectListCall(login)
        \/ GetProjectCall(login)
        \/ DeleteProjectCall(login)
        \/ CreateTodoCall(login)
        \/ UpdateTodoCall(login)
        \/ DeleteTodoCall(login)
        \/ GetTodoCall(login)
        \/ ListTodosCall(login)

Spec == Init /\ [][Next]_vars

\* two session owners (and one login outside the allow-list)
NextTenants ==
    \E login \in Logins :
        \/ InitSession(login)
        \/ AddCall(login)
        \/ UserInfoOctokitCall(login)
        \/ GenerateImageCall(login)
        \/ CreateProjectCall(login) /\ issued' <= MaxTenantIds
        \/ GetProjectListCall(login)
        \/ GetProjectCall(login)
        \/ DeleteProjectCall(login)
        \/ CreateTodoCall(login) /\ issued' <= MaxTenantIds
        \/ UpdateTodoCall(login)
        \/ DeleteTodoCall(login)
        \/ GetTodoCall(login)
        \/ ListTodosCall(login)

SpecTenants == Init /\ [][NextTenants]_vars

-----------------------------------------------------------------------------
(* The handlers store call by store call.  Every await of a KV call is a   *)
(* point where another invocation may run or where the invocation may stop *)
(* for good; a step is one KV call together with the synchronous code that *)
(* follows it up to the next await.                                        *)

MaxStepIds == 3    \* crypto.randomUUID() calls per behaviour of SpecSteps

StepIdArgs == {UUIDPool[i] : i \in 1..MaxStepIds}

\* the login whose handlers are followed step by step
StepCallers == {"ermao1688"}

InFlight(c) == calls[c].pc # "done"

\* the tool is dispatched into the first free slot
Dispatch(c, login, tool) ==
    /\ ~InFlight(c)
    /\ c = "c2" => InFlight("c1")
    /\ tool \in tools[login]
    /\ overlapped' = (overlapped \/ \E d \in Slots \ {c} : InFlight(d))
    /\ UNCHANGED tools

\* the invocation in slot c is of tool and is about to make the call at pc
At(c, tool, pc) == calls[c].tool = tool /\ calls[c].pc = pc

\* the invocation in slot c goes on with its locals changed to call
Resume(c, call) ==
    /\ calls' = [calls EXCEPT ![c] = call]
    /\ UNCHANGED <<tools, overlapped>>

NewCall(login, tool, pc) == [IdleCall EXCEPT !.tool = tool, !.pc = pc, !.login = login]

\* the handler returns or throws: res goes back to the caller
Done(call, res) == IdleCall

\* what new Date() reads in a handler followed step by step: the clock is
\* not advanced between these reads
StepClockReads(t) == {t}

(* createProject *)

\* randomUUID(), new Date(), KV.put of the Project record
CreateProject_PutProject(c, login) ==
    \E name \in Names, description \in ProjectDescriptions, t \in StepClockReads(now) :
      LET projectId == randomUUID(issued)
          project == [id |-> projectId, name |-> name,
                      description |-> Coalesce(description, ""),
                      createdAt |-> t, updatedAt |-> t]
      IN /\ issued < MaxStepIds
         /\ Dispatch(c, login, "createProject")
         /\ KV' = KVput(KV, ProjectKey(projectId, login), ProjectText(project))
         /\ calls' = [calls EXCEPT ![c] =
                        [NewCall(login, "createProject", "getProjectList")
                           EXCEPT !.id = projectId, !.text = ProjectText(project)]]
         /\ issued' = issued + 1
         /\ now' = t

\* getProjectList()
CreateProject_GetProjectList(c) ==
    /\ At(c, "createProject", "getProjectList")
    /\ Resume(c, [calls[c] EXCEPT !.pc = "putProjectList",
                                  !.list = getProjectList(KV, calls[c].login)])
    /\ UNCHANGED <<KV, issued, now>>

\* push(project.id); KV.put of the list; return
CreateProject_PutProjectList(c) ==
    /\ At(c, "createProject", "putProjectList")
    /\ KV' = KVput(KV, ProjectListPutKey(calls[c].login),
                   StringifyArray(Append(calls[c].list, calls[c].id)))
    /\ Resume(c, Done(calls[c], Returned(calls[c].text)))
    /\ UNCHANGED <<issued, now>>

(* create_todo *)

\* KV.get of the Project record; the not-found return
CreateTodo_GetProject(c, login) ==
    \E projectId \in StepIdArgs :
      /\ Dispatch(c, login, "create_todo")
      /\ calls' = [calls EXCEPT ![c] =
                     IF KVhas(KV, ProjectKey(projectId, login))
                     THEN [NewCall(login, "create_todo", "putTodo")
                             EXCEPT !.projectId = projectId]
                     ELSE Done([NewCall(login, "create_todo", "done")
                                  EXCEPT !.projectId = projectId],
                               Returned(Message(ProjectNotFound(projectId))))]
      /\ UNCHANGED <<KV, issued, now>>

\* (mutant) the id is put into the Todo Index where the Todo record is due
CreateTodo_PutTodo_IndexFirst(c) ==
    \E title \in Titles, opt \in CreateOptions, t \in StepClockReads(now) :
      LET todoId == randomUUID(issued)
          todo == [id |-> todoId, projectId |-> calls[c].projectId, title |-> title,
                   description |-> Coalesce(opt.description, ""),
                   priority |-> Coalesce(opt.priority, "medium"),
                   status |-> "pending",
                   createdAt |-> t, updatedAt |-> t]
      IN /\ At(c, "create_todo", "putTodo")
         /\ issued < MaxStepIds
         /\ KV' = KVput(KV, TodoListKey(calls[c].projectId, calls[c].login),
                        StringifyArray(
                            Append(getTodoList(KV, calls[c].login, calls[c].projectId),
                                   todoId)))
         /\ Resume(c, [calls[c] EXCEPT !.pc = "getTodoList", !.id = todoId,
                                       !.text = TodoText(todo)])
         /\ issued' = issued + 1
         /\ now' = t

\* randomUUID(), new Date(), KV.put of the Todo record
CreateTodo_PutTodo(c) ==
    \E title \in Titles, opt \in CreateOptions, t \in StepClockReads(now) :
      LET todoId == randomUUID(issued)
          todo == [id |-> todoId, projectId |-> calls[c].projectId, title |-> title,
                   description |-> Coalesce(opt.description, ""),
                   priority |-> Coalesce(opt.priority, "medium"),
                   status |-> "pending",
                   createdAt |-> t, updatedAt |-> t]
      IN /\ At(c, "create_todo", "putTodo")
         /\ issued < MaxStepIds
         /\ KV' = KVput(KV, TodoKey(calls[c].login, todoId), TodoText(todo))
         /\ Resume(c, [calls[c] EXCEPT !.pc = "getTodoList", !.id = todoId,
                                       !.text = TodoText(todo)])
         /\ issued' = issued + 1
         /\ now' = t

\* getTodoList(projectId)
CreateTodo_GetTodoList(c) ==
    /\ At(c, "create_todo", "getTodoList")
    /\ Resume(c, [calls[c] EXCEPT
                    !.pc = "putTodoList",
                    !.list = getTodoList(KV, calls[c].login, calls[c].projectId)])
    /\ UNCHANGED <<KV, issued, now>>

\* what create_todo returns past the not-found check: the todo it wrote
CreateTodoReturn(call) == Returned(call.text)

\* (mutant) the id is appended to the list as it is in the store at the put
CreateTodo_PutTodoList_Atomic(c) ==
    /\ At(c, "create_todo", "putTodoList")
    /\ KV' = KVput(KV, TodoListKey(calls[c].projectId, calls[c].login),
                   StringifyArray(
                       Append(getTodoList(KV, calls[c].login, calls[c].projectId),
                              calls[c].id)))
    /\ Resume(c, Done(calls[c], CreateTodoReturn(calls[c])))
    /\ UNCHANGED <<issued, now>>

\* (mutant) the list is read again at the put and what the first read gave
\* is appended to it before the id
CreateTodo_PutTodoList_Reread(c) ==
    /\ At(c, "create_todo", "putTodoList")
    /\ KV' = KVput(KV, TodoListKey(calls[c].projectId, calls[c].login),
                   StringifyArray(
                       Append(getTodoList(KV, calls[c].login, calls[c].projectId)
                                  \o calls[c].list,
                              calls[c].id)))
    /\ Resume(c, Done(calls[c], CreateTodoReturn(calls[c])))
    /\ UNCHANGED <<issued, now>>

\* push(todoId); KV.put of the list; return
CreateTodo_PutTodoList(c) ==
    /\ At(c, "create_todo", "putTodoList")
    /\ KV' = KVput(KV, TodoListKey(calls[c].projectId, calls[c].login),
                   StringifyArray(Append(calls[c].list, calls[c].id)))
    /\ Resume(c, Done(calls[c], CreateTodoReturn(calls[c])))
    /\ UNCHANGED <<issued, now>>

(* update_todo *)

\* the optional arguments of an update_todo followed step by step: the
\* caller supplies the title alone
StepUpdateOptions ==
    {[description |-> Undefined, status |-> Undefined, priority |-> Undefined]}

\* KV.get of the Todo record; the not-found return; JSON.parse, the
\* assignments and new Date()
UpdateTodo_GetTodo(c, login) ==
    \E todoId \in StepIdArgs, title \in NewTitles, opt \in StepUpdateOptions,
       t \in StepClockReads(now) :
      /\ Dispatch(c, login, "update_todo")
      /\ calls' = [calls EXCEPT ![c] =
                     IF KVhas(KV, TodoKey(login, todoId))
                     THEN LET old == JSONparse(KV[TodoKey(login, todoId)])
                              todo == [old EXCEPT
                                         !.title = title,
                                         !.description =
                                             Coalesce(opt.description, old.description),
                                         !.status = Coalesce(opt.status, old.status),
                                         !.priority =
                                             Coalesce(opt.priority, old.priority),
                                         !.updatedAt = t]
                          IN [NewCall(login, "update_todo", "putTodo")
                                EXCEPT !.id = todoId, !.text = TodoText(todo)]
                     ELSE Done([NewCall(login, "update_todo", "done")
                                  EXCEPT !.id = todoId],
                               Returned(Message(TodoNotFound(todoId))))]
      /\ now' = t
      /\ UNCHANGED <<KV, issued>>

\* KV.put of the Todo record; return
UpdateTodo_PutTodo(c) ==
    /\ At(c, "update_todo", "putTodo")
    /\ KV' = KVput(KV, TodoKey(calls[c].login, calls[c].id), calls[c].text)
    /\ Resume(c, Done(calls[c], Returned(calls[c].text)))
    /\ UNCHANGED <<issued, now>>

(* delete_todo *)

\* KV.get of the Todo record; the not-found throw; JSON.parse
DeleteTodo_GetTodo(c, login) ==
    \E todoId \in StepIdArgs :
      /\ Dispatch(c, login, "delete_todo")
      /\ calls' = [calls EXCEPT ![c] =
                     IF KVhas(KV, TodoKey(login, todoId))
                     THEN [NewCall(login, "delete_todo", "getTodoList")
                             EXCEPT !.id = todoId,
                                    !.projectId =
                                        JSONparse(KV[TodoKey(login, todoId)]).projectId]
                     ELSE Done([NewCall(login, "delete_todo", "done")
                                  EXCEPT !.id = todoId],
                               Raised(TodoNotFound(todoId)))]
      /\ UNCHANGED <<KV, issued, now>>

\* getTodoList(todo.projectId)
DeleteTodo_GetTodoList(c) ==
    /\ At(c, "delete_todo", "getTodoList")
    /\ Resume(c, [calls[c] EXCEPT
                    !.pc = "putTodoList",
                    !.list = getTodoList(KV, calls[c].login, calls[c].projectId)])
    /\ UNCHANGED <<KV, issued, now>>

\* (mutant) the list is put back as it was read
DeleteTodo_PutTodoList_Unfiltered(c) ==
    /\ At(c, "delete_todo", "putTodoList")
    /\ KV' = KVput(KV, TodoListKey(calls[c].projectId, calls[c].login),
                   StringifyArray(calls[c].list))
    /\ Resume(c, [calls[c] EXCEPT !.pc = "deleteTodo"])
    /\ UNCHANGED <<issued, now>>

\* filter; KV.put of the list
DeleteTodo_PutTodoList(c) ==
    /\ At(c, "delete_todo", "putTodoList")
    /\ KV' = KVput(KV, TodoListKey(calls[c].projectId, calls[c].login),
                   StringifyArray(FilterOut(calls[c].list, calls[c].id)))
    /\ Resume(c, [calls[c] EXCEPT !.pc = "deleteTodo"])
    /\ UNCHANGED <<issued, now>>

\* KV.delete of the Todo record; return
DeleteTodo_DeleteTodo(c) ==
    /\ At(c, "delete_todo", "deleteTodo")
    /\ KV' = KVdelete(KV, TodoKey(calls[c].login, calls[c].id))
    /\ Resume(c, Done(calls[c],
                      Returned(Message("Todo with ID " \o calls[c].id \o " deleted"))))
    /\ UNCHANGED <<issued, now>>

(* delete_project *)

\* KV.get of the Project record; the not-found return
DeleteProject_GetProject(c, login) ==
    \E projectId \in StepIdArgs :
      /\ Dispatch(c, login, "delete_project")
      /\ calls' = [calls EXCEPT ![c] =
                     IF KVhas(KV, ProjectKey(projectId, login))
                     THEN [NewCall(login, "delete_project", "getTodoList")
                             EXCEPT !.projectId = projectId]
                     ELSE Done([NewCall(login, "delete_project", "done")
                                  EXCEPT !.projectId = projectId],
                               Returned(Message(ProjectNotFound(projectId))))]
      /\ UNCHANGED <<KV, issued, now>>

\* where delete_project goes on once list holds the ids getTodosByProject has
\* still to look up and todos the ids of the todos deleteTodo is still due for
DeleteProjectPc(list, todos) ==
    IF list # <<>> THEN "getTodo"
    ELSE IF todos # <<>> THEN "cascadeGetTodoList"
    ELSE "deleteProject"

\* getTodosByProject: getTodoList(projectId)
DeleteProject_GetTodoList(c) ==
    /\ At(c, "delete_project", "getTodoList")
    /\ LET todoList == getTodoList(KV, calls[c].login, calls[c].projectId)
       IN Resume(c, [calls[c] EXCEPT !.pc = DeleteProjectPc(todoList, <<>>),
                                     !.list = todoList])
    /\ UNCHANGED <<KV, issued, now>>

\* getTodosByProject: KV.get of the next Todo record; push if it is there
DeleteProject_GetTodo(c) ==
    /\ At(c, "delete_project", "getTodo")
    /\ LET todoKey == TodoKey(calls[c].login, Head(calls[c].list))
           todos == IF KVhas(KV, todoKey)
                    THEN Append(calls[c].todos, JSONparse(KV[todoKey]).id)
                    ELSE calls[c].todos
       IN Resume(c, [calls[c] EXCEPT !.pc = DeleteProjectPc(Tail(calls[c].list), todos),
                                     !.list = Tail(calls[c].list),
                                     !.todos = todos])
    /\ UNCHANGED <<KV, issued, now>>

\* deleteTodo(projectId, todo.id): getTodoList(projectId)
DeleteProject_CascadeGetTodoList(c) ==
    /\ At(c, "delete_project", "cascadeGetTodoList")
    /\ Resume(c, [calls[c] EXCEPT
                    !.pc = "cascadePutTodoList",
                    !.list = getTodoList(KV, calls[c].login, calls[c].projectId)])
    /\ UNCHANGED <<KV, issued, now>>

\* deleteTodo(projectId, todo.id): indexOf, splice, KV.put of the list
DeleteProject_CascadePutTodoList(c) ==
    /\ At(c, "delete_project", "cascadePutTodoList")
    /\ KV' = KVput(KV, TodoListKey(calls[c].projectId, calls[c].login),
                   StringifyArray(RemoveFirst(calls[c].list, Head(calls[c].todos))))
    /\ Resume(c, [calls[c] EXCEPT !.pc = DeleteProjectPc(<<>>, Tail(calls[c].todos)),
                                  !.list = <<>>,
                                  !.todos = Tail(calls[c].todos)])
    /\ UNCHANGED <<issued, now>>

\* KV.delete of the Project record
DeleteProject_DeleteProject(c) ==
    /\ At(c, "delete_project", "deleteProject")
    /\ KV' = KVdelete(KV, ProjectKey(calls[c].projectId, calls[c].login))
    /\ Resume(c, [calls[c] EXCEPT !.pc = "getProjectList"])
    /\ UNCHANGED <<issued, now>>

\* getProjectList()
DeleteProject_GetProjectList(c) ==
    /\ At(c, "delete_project", "getProjectList")
    /\ Resume(c, [calls[c] EXCEPT !.pc = "putProjectList",
                                  !.list = getProjectList(KV, calls[c].login)])
    /\ UNCHANGED <<KV, issued, now>>

\* indexOf, splice, KV.put of the list; return
DeleteProject_PutProjectList(c) ==
    /\ At(c, "delete_project", "putProjectList")
    /\ KV' = KVput(KV, ProjectListPutKey(calls[c].login),
                   StringifyArray(RemoveFirst(calls[c].list, calls[c].projectId)))
    /\ Resume(c, Done(calls[c],
                      Returned(Message("Project with ID " \o calls[c].projectId
                                       \o " and all its todos deleted"))))
    /\ UNCHANGED <<issued, now>>

\* the invocation never resumes from the await it is suspended at
Stop(c) ==
    /\ InFlight(c)
    /\ Resume(c, IdleCall)
    /\ UNCHANGED <<KV, issued, now>>

\* the invocations of one owner, interleaved at their awaits
NextSteps ==
    \E c \in Slots, login \in StepCallers :
        \/ InitSession(login)
        \/ CreateProject_PutProject(c, login)
        \/ CreateProject_GetProjectList(c)
        \/ CreateProject_PutProjectList(c)
        \/ CreateTodo_GetProject(c, login)
        \/ CreateTodo_PutTodo(c)
        \/ CreateTodo_GetTodoList(c)
        \/ CreateTodo_PutTodoList(c)
        \/ UpdateTodo_GetTodo(c, login)
        \/ UpdateTodo_PutTodo(c)
        \/ DeleteTodo_GetTodo(c, login)
        \/ DeleteTodo_GetTodoList(c)
        \/ DeleteTodo_PutTodoList(c)
        \/ DeleteTodo_DeleteTodo(c)
        \/ DeleteProject_GetProject(c, login)
        \/ DeleteProject_GetTodoList(c)
        \/ DeleteProject_GetTodo(c)
        \/ DeleteProject_CascadeGetTodoList(c)
        \/ DeleteProject_CascadePutTodoList(c)
        \/ DeleteProject_DeleteProject(c)
        \/ DeleteProject_GetProjectList(c)
        \/ DeleteProject_PutProjectList(c)

SpecSteps == Init /\ [][NextSteps]_vars

\* the invocations of one owner one after the other, each running to its
\* return or stopping at one of its awaits
NextStops ==
    \E c \in {"c1"}, login \in StepCallers :
        \/ InitSession(login)
        \/ CreateProject_PutProject(c, login)
        \/ CreateProject_GetProjectList(c)
        \/ CreateProject_PutProjectList(c)
        \/ CreateTodo_GetProject(c, login)
        \/ CreateTodo_PutTodo(c)
        \/ CreateTodo_GetTodoList(c)
        \/ CreateTodo_PutTodoList(c)
        \/ UpdateTodo_GetTodo(c, login)
        \/ UpdateTodo_PutTodo(c)
        \/ DeleteTodo_GetTodo(c, login)
        \/ DeleteTodo_GetTodoList(c)
        \/ DeleteTodo_PutTodoList(c)
        \/ DeleteTodo_DeleteTodo(c)
        \/ DeleteProject_GetProject(c, login)
        \/ DeleteProject_GetTodoList(c)
        \/ DeleteProject_GetTodo(c)
        \/ DeleteProject_CascadeGetTodoList(c)
        \/ DeleteProject_CascadePutTodoList(c)
        \/ DeleteProject_DeleteProject(c)
        \/ DeleteProject_GetProjectList(c)
        \/ DeleteProject_PutProjectList(c)
        \/ Stop(c)

SpecStops == Init /\ [][NextStops]_vars

-----------------------------------------------------------------------------
(* The tools applied to a store as any earlier writer may have left it:    *)
(* index lists that hold ids with no record, ids more than once, or that   *)
(* are absent.                                                             *)

MaxListLen == 3    \* longest index list in an initial store of SpecStores

StoreOwner == "ermao1688"

StoreProjectIds == {"u1", "u2"}

StoreTodoIds == {"u3", "u4"}

\* the project the stored todos belong to
StoreProjectId == "u1"

\* no list (the key is absent) or a list of at most MaxListLen of the ids
OptionalLists(ids) == {Undefined} \cup {Some(l) : l \in UNION {[1..k -> ids] : k \in 0..MaxListLen}}

StoredProject(id) ==
    [id |-> id, name |-> "Launch", description |-> "v1", createdAt |-> 0, updatedAt |-> 0]

StoredTodo(id) ==
    [id |-> id, projectId |-> StoreProjectId, title |-> "Write spec", description |-> "",
     priority |-> "high", status |-> IF id = "u3" THEN "pending" ELSE "completed",
     createdAt |-> 0, updatedAt |-> 0]

\* the store with these Project and Todo records, this Project Index and
\* this Todo Index of StoreProjectId
Store(projects, projectList, todos, todoList) ==
    LET login == StoreOwner
        keys == {ProjectKey(id, login) : id \in projects}
                \cup {TodoKey(login, id) : id \in todos}
                \cup {ProjectListKey(login) : l \in projectList}
                \cup {TodoListKey(StoreProjectId, login) : l \in todoList}
    IN [k \in keys |->
          IF k = ProjectListKey(login) THEN StringifyArray(Coalesce(projectList, <<>>))
          ELSE IF k = TodoListKey(StoreProjectId, login)
               THEN StringifyArray(Coalesce(todoList, <<>>))
          ELSE IF \E id \in projects : k = ProjectKey(id, login)
               THEN ProjectText(StoredProject(CHOOSE id \in projects : k = ProjectKey(id, login)))
          ELSE TodoText(StoredTodo(CHOOSE id \in todos : k = TodoKey(login, id)))]

InitStores ==
    /\ KV \in {Store(projects, projectList, todos, todoList) :
                 projects \in SUBSET StoreProjectIds,
                 projectList \in OptionalLists(StoreProjectIds),
                 todos \in SUBSET StoreTodoIds,
                 todoList \in OptionalLists(StoreTodoIds)}
    /\ tools = [login \in Logins |->
                  IF login = StoreOwner THEN RegisteredTools(login) ELSE {}]
    /\ issued = Cardinality(StoreProjectIds \cup StoreTodoIds)
    /\ now = 0
    /\ calls = [c \in Slots |-> IdleCall]
    /\ overlapped = FALSE

\* the listing tools and the deleting tools, each run to completion
NextStores ==
    \E login \in {StoreOwner} :
        \/ GetProjectListCall(login)
        \/ GetProjectCall(login)
        \/ ListTodosCall(login)
        \/ GetTodoCall(login)
        \/ DeleteTodoCall(login)
        \/ DeleteProjectCall(login)

SpecStores == InitStores /\ [][NextStores]_vars

-----------------------------------------------------------------------------
(* Vocabulary of the properties *)

\* the ids handed out so far, in the order they were handed out
IssuedIds == [i \in 1..issued |-> UUIDPool[i]]

\* the ids of the objects an array text holds, in order
IdsOf(text) == [i \in DOMAIN text.v |-> JSONparse(text.v[i]).id]

Range(seq) == {seq[i] : i \in DOMAIN seq}

\* the call raised an Error with this message
RaisedWith(res, s) == res.raised /\ res.text.v = s

\* the call returned this plain message
ReturnedMessage(res, s) == ~res.raised /\ res.text.t = "msg" /\ res.text.v = s

\* the call returned the JSON text of an array
ReturnedArray(res) == ~res.raised /\ res.text.t = "arr"

\* the call returned the JSON text of an object
ReturnedObject(res) == ~res.raised /\ res.text.t = "obj"

\* two responses are the same response
SameRes(r1, r2) == r1.raised = r2.raised /\ r1.text.t = r2.text.t /\ r1.text = r2.text

\* some tool call of login is this step
StepBy(login) ==
    \/ AddCall(login)
    \/ UserInfoOctokitCall(login)
    \/ GenerateImageCall(login)
    \/ CreateProjectCall(login)
    \/ GetProjectListCall(login)
    \/ GetProjectCall(login)
    \/ DeleteProjectCall(login)
    \/ CreateTodoCall(login)
    \/ UpdateTodoCall(login)
    \/ DeleteTodoCall(login)
    \/ GetTodoCall(login)
    \/ ListTodosCall(login)

\* what login's read tools return on the stores kv1 and kv2 is the same
SameView(kv1, kv2, login) ==
    /\ SameRes(get_project_list(kv1, login).res, get_project_list(kv2, login).res)
    /\ \A id \in IdArgs :
         /\ SameRes(get_project(kv1, login, id).res, get_project(kv2, login, id).res)
         /\ SameRes(get_todo(kv1, login, id).res, get_todo(kv2, login, id).res)
         /\ \A status \in StatusFilters :
              SameRes(list_todos(kv1, login, id, status).res,
                      list_todos(kv2, login, id, status).res)

HasProject(kv, login, id) == KVhas(kv, ProjectKey(id, login))

HasTodo(kv, login, id) == KVhas(kv, TodoKey(login, id))

ProjectOf(kv, login, id) == JSONparse(kv[ProjectKey(id, login)])

TodoOf(kv, login, id) == JSONparse(kv[TodoKey(login, id)])

\* the ids of login's project records, in creation order
ProjectIdsCreated(kv, login) ==
    LET Keep(id) == HasProject(kv, login, id) IN SelectSeq(IssuedIds, Keep)

\* the ids of login's todo records whose projectId is projectId, in creation order
TodoIdsCreated(kv, login, projectId) ==
    LET Keep(id) == HasTodo(kv, login, id) /\ TodoOf(kv, login, id).projectId = projectId
    IN SelectSeq(IssuedIds, Keep)

-----------------------------------------------------------------------------
(* C1: after createProject by an owner, a following get_project_list by    *)
(* that owner (no delete_project in between) returns the new project, and  *)
(* after n createProject calls it returns all n projects in creation       *)
(* order: in every state get_project_list returns the owner's project      *)
(* records in creation order.                                              *)
C1_CreatedProjectsListed ==
    \A login \in ALLOWED_USERNAMES :
        /\ ReturnedArray(get_project_list(KV, login).res)
        /\ IdsOf(get_project_list(KV, login).res.text) = ProjectIdsCreated(KV, login)

(* C2: cascade delete.  Every step that deletes a project P of an owner    *)
(* leaves list_todos(P) failing with not-found and get_todo(t) failing     *)
(* with not-found for every todo t that list_todos(P) returned just before *)
(* the step.                                                               *)
C2_CascadeDelete ==
    [][\A login \in ALLOWED_USERNAMES, projectId \in IdArgs :
         (HasProject(KV, login, projectId) /\ ~HasProject(KV', login, projectId))
         => /\ RaisedWith(list_todos(KV', login, projectId, Undefined).res,
                          ProjectNotFound(projectId))
            /\ \A todoId \in Range(IdsOf(list_todos(KV, login, projectId, Undefined).res.text)) :
                 RaisedWith(get_todo(KV', login, todoId).res, TodoNotFound(todoId))]_vars

(* C3: tenant isolation.  For owners A # B, after every step no project    *)
(* record of A is among the projects get_project_list returns to B, and    *)
(* get_project by B returns no project of A for any id B may pass; and a   *)
(* step changes what B's read tools return only if it is a call by B.      *)
C3_TenantIsolation ==
    [][KV' # KV =>
       \A A \in Logins : \A B \in Logins \ {A} :
         /\ \A id \in IdArgs :
              HasProject(KV', A, id)
              => /\ id \notin Range(IdsOf(get_project_list(KV', B).res.text))
                 /\ ReturnedMessage(get_project(KV', B, id).res, ProjectNotFound(id))
         /\ \A id \in IdArgs :
              ReturnedObject(get_project(KV', B, id).res)
              => ~HasProject(KV', A,
                             JSONparse(JSONparse(get_project(KV', B, id).res.text).project).id)
         /\ ~SameView(KV, KV', B) => StepBy(B)]_vars

\* both owners hold a project of their own and both may call the read tools
C3_Witness ==
    \E A \in ALLOWED_USERNAMES : \E B \in ALLOWED_USERNAMES \ {A} :
        /\ "get_project" \in tools[A] /\ "get_project" \in tools[B]
        /\ \E idA \in IdArgs, idB \in IdArgs :
             HasProject(KV, A, idA) /\ HasProject(KV, B, idB)

(* C4: for an existing project P of an owner, get_project(P) returns P's   *)
(* record together with exactly the todos created under P by create_todo   *)
(* and not removed by delete_todo since, in creation order.                *)
C4_GetProjectReturnsItsTodos ==
    \A login \in ALLOWED_USERNAMES, projectId \in IdArgs :
        HasProject(KV, login, projectId)
        => LET res == get_project(KV, login, projectId).res
               body == JSONparse(res.text)
           IN /\ ReturnedObject(res)
              /\ JSONparse(body.project) = ProjectOf(KV, login, projectId)
              /\ body.todos.t = "arr"
              /\ IdsOf(body.todos) = TodoIdsCreated(KV, login, projectId)
              /\ \A i \in DOMAIN body.todos.v :
                   JSONparse(body.todos.v[i])
                     = TodoOf(KV, login, TodoIdsCreated(KV, login, projectId)[i])

\* a project whose get_project shows one todo, while another id handed out
\* earlier no longer names a record (it was deleted)
C4_Witness ==
    \E login \in ALLOWED_USERNAMES, projectId \in IdArgs :
        /\ HasProject(KV, login, projectId)
        /\ Len(JSONparse(get_project(KV, login, projectId).res.text).todos.v) = 1
        /\ \E i \in 1..issued :
             /\ ~HasTodo(KV, login, UUIDPool[i])
             /\ ~HasProject(KV, login, UUIDPool[i])

(* C5: not-found leaves the store unchanged.  When the project (for        *)
(* create_todo, delete_project, list_todos, get_project) or the todo (for  *)
(* update_todo, delete_todo, get_todo) does not exist for the caller, the  *)
(* call ends with the not-found outcome - a returned message for           *)
(* get_project, delete_project, create_todo and update_todo, a raised      *)
(* Error for delete_todo, get_todo and list_todos - and the store it       *)
(* leaves is the store it found.                                           *)
C5_NotFoundLeavesStoreUnchanged ==
    \A login \in ALLOWED_USERNAMES, id \in IdArgs :
        /\ ~HasProject(KV, login, id)
           => /\ \A title \in Titles, opt \in CreateOptions, t \in ClockReads(now) :
                   LET out == create_todo(KV, login, id, title, opt.description,
                                          opt.priority, randomUUID(issued), t)
                   IN /\ out.kv = KV
                      /\ ReturnedMessage(out.res, ProjectNotFound(id))
                      /\ ~HasTodo(out.kv, login, randomUUID(issued))
                      /\ ~KVhas(out.kv, TodoListKey(id, login)) \/ KVhas(KV, TodoListKey(id, login))
              /\ delete_project(KV, login, id).kv = KV
              /\ ReturnedMessage(delete_project(KV, login, id).res, ProjectNotFound(id))
              /\ get_project(KV, login, id).kv = KV
              /\ ReturnedMessage(get_project(KV, login, id).res, ProjectNotFound(id))
              /\ \A status \in StatusFilters :
                   /\ list_todos(KV, login, id, status).kv = KV
                   /\ RaisedWith(list_todos(KV, login, id, status).res, ProjectNotFound(id))
        /\ ~HasTodo(KV, login, id)
           => /\ \A title \in NewTitles, opt \in UpdateOptions, t \in ClockReads(now) :
                   LET out == update_todo(KV, login, id, title, opt.description,
                                          opt.status, opt.priority, t)
                   IN out.kv = KV /\ ReturnedMessage(out.res, TodoNotFound(id))
              /\ delete_todo(KV, login, id).kv = KV
              /\ RaisedWith(delete_todo(KV, login, id).res, TodoNotFound(id))
              /\ get_todo(KV, login, id).kv = KV
              /\ RaisedWith(get_todo(KV, login, id).res, TodoNotFound(id))

\* an owner who may call the tools, over a store that holds a project and
\* its todo list, and an id that names neither a project nor a todo of
\* that owner although it was handed out: its record has been deleted
C5_Witness ==
    \E login \in ALLOWED_USERNAMES, id \in Range(IssuedIds), projectId \in IdArgs :
        /\ "create_todo" \in tools[login] /\ "delete_todo" \in tools[login]
        /\ ~HasProject(KV, login, id) /\ ~HasTodo(KV, login, id)
        /\ HasProject(KV, login, projectId)
        /\ KVhas(KV, TodoListKey(projectId, login))

\* new is old after update_todo(title, opt) whose new Date() read t: title
\* replaced; description, status and priority replaced when supplied and
\* kept otherwise; updatedAt set to t; nothing else touched
PartiallyUpdated(old, new, title, opt, t) ==
    /\ new.title = title
    /\ IF opt.description = Undefined
       THEN new.description = old.description
       ELSE new.description \in opt.description
    /\ IF opt.status = Undefined
       THEN new.status = old.status
       ELSE new.status \in opt.status
    /\ IF opt.priority = Undefined
       THEN new.priority = old.priority
       ELSE new.priority \in opt.priority
    /\ new.updatedAt = t
    /\ new.id = old.id /\ new.projectId = old.projectId /\ new.createdAt = old.createdAt

(* C6 as stated: update_todo on an existing todo replaces title, replaces  *)
(* description, status and priority only when supplied, sets updatedAt to  *)
(* the current time, and so advances updatedAt: every step that rewrites   *)
(* an existing Todo record is such a partial update and leaves an          *)
(* updatedAt later than the one it found (asked only of steps taken while  *)
(* the clock is below MaxClock, where a later reading was possible).       *)
C6_UpdateAdvancesUpdatedAt ==
    [][\A login \in ALLOWED_USERNAMES, id \in IdArgs :
         (/\ HasTodo(KV, login, id) /\ HasTodo(KV', login, id)
          /\ KV'[TodoKey(login, id)] # KV[TodoKey(login, id)])
         => /\ \E title \in NewTitles, opt \in UpdateOptions :
                 PartiallyUpdated(TodoOf(KV, login, id), TodoOf(KV', login, id),
                                  title, opt, now')
            /\ now < MaxClock
               => TodoOf(KV', login, id).updatedAt > TodoOf(KV, login, id).updatedAt]_vars

(* C6 as amended: update_todo on an existing todo returns and stores the   *)
(* record with title replaced, description, status and priority replaced   *)
(* when supplied and kept otherwise, and updatedAt set to the clock        *)
(* reading of the call, whether or not that reading is later than the      *)
(* stored updatedAt; it writes no other key.                               *)
C6_PartialUpdate ==
    \A login \in ALLOWED_USERNAMES, id \in IdArgs :
        HasTodo(KV, login, id)
        => \A title \in NewTitles, opt \in UpdateOptions, t \in ClockReads(now) :
             LET out == update_todo(KV, login, id, title, opt.description, opt.status,
                                    opt.priority, t)
             IN /\ ReturnedObject(out.res)
                /\ HasTodo(out.kv, login, id)
                /\ JSONparse(out.res.text) = TodoOf(out.kv, login, id)
                /\ PartiallyUpdated(TodoOf(KV, login, id), TodoOf(out.kv, login, id),
                                    title, opt, t)
                /\ out.kv = KVput(KV, TodoKey(login, id), out.kv[TodoKey(login, id)])

\* a todo that a title-only update_todo rewrote after the clock had moved
\* on: new title, the status, priority and description it was created
\* with, and an updatedAt later than its createdAt
C6_Witness ==
    \E login \in ALLOWED_USERNAMES, id \in IdArgs :
        /\ HasTodo(KV, login, id)
        /\ TodoOf(KV, login, id).title \in NewTitles
        /\ TodoOf(KV, login, id).status = "pending"
        /\ TodoOf(KV, login, id).priority = "high"
        /\ TodoOf(KV, login, id).description = ""
        /\ TodoOf(KV, login, id).updatedAt > TodoOf(KV, login, id).createdAt

(* C7: round trip.  For every successful create_todo, a get_todo by the    *)
(* same owner with the returned id, nothing in between, returns a record   *)
(* equal to the one create_todo returned in every field.                   *)
C7_CreateGetRoundTrip ==
    \A login \in ALLOWED_USERNAMES, projectId \in IdArgs :
        HasProject(KV, login, projectId)
        => \A title \in Titles, opt \in CreateOptions, t \in ClockReads(now) :
             LET created == create_todo(KV, login, projectId, title, opt.description,
                                        opt.priority, randomUUID(issued), t)
                 todo == JSONparse(created.res.text)
                 got == get_todo(created.kv, login, todo.id).res
             IN /\ ReturnedObject(created.res)
                /\ todo.id = randomUUID(issued)
                /\ ReturnedObject(got)
                /\ DOMAIN JSONparse(got.text) = Range(TodoFields)
                /\ \A field \in Range(TodoFields) :
                     JSONparse(got.text)[field] = todo[field]

\* a todo as create_todo wrote it (not updated since), which get_todo returns
C7_Witness ==
    \E login \in ALLOWED_USERNAMES, id \in IdArgs :
        /\ HasTodo(KV, login, id)
        /\ "get_todo" \in tools[login]
        /\ ReturnedObject(get_todo(KV, login, id).res)
        /\ TodoOf(KV, login, id).title \in Titles
        /\ TodoOf(KV, login, id).updatedAt = TodoOf(KV, login, id).createdAt

\* the todos of the project, in creation order, that the filter lets through
ExpectedTodos(kv, login, projectId, status) ==
    LET Shown(id) == \/ status = Undefined
                     \/ status = Some("all")
                     \/ TodoOf(kv, login, id).status \in status
    IN SelectSeq(TodoIdsCreated(kv, login, projectId), Shown)

(* C8: filter correctness.  For an existing project P, list_todos(P, s)    *)
(* with s one of pending, in_progress, completed returns exactly the todos *)
(* of P whose status is s, in creation order; with status absent or "all"  *)
(* it returns every todo of P in that order.                               *)
C8_ListTodosFilter ==
    \A login \in ALLOWED_USERNAMES, projectId \in IdArgs, status \in StatusFilters :
        HasProject(KV, login, projectId)
        => LET res == list_todos(KV, login, projectId, status).res
               expected == ExpectedTodos(KV, login, projectId, status)
           IN /\ ReturnedArray(res)
              /\ IdsOf(res.text) = expected
              /\ \A i \in DOMAIN res.text.v :
                   JSONparse(res.text.v[i]) = TodoOf(KV, login, expected[i])

\* a project with two todos, the older one completed and the newer one
\* pending: each status filter returns one of them, no filter both
C8_Witness ==
    \E login \in ALLOWED_USERNAMES, projectId \in IdArgs :
        /\ HasProject(KV, login, projectId)
        /\ Len(TodoIdsCreated(KV, login, projectId)) = 2
        /\ TodoOf(KV, login, TodoIdsCreated(KV, login, projectId)[1]).status = "completed"
        /\ TodoOf(KV, login, TodoIdsCreated(KV, login, projectId)[2]).status = "pending"
        /\ Len(list_todos(KV, login, projectId, Some("pending")).res.text.v) = 1
        /\ Len(list_todos(KV, login, projectId, Some("all")).res.text.v) = 2

(* C9: authorization gate.  A login outside ALLOWED_USERNAMES only ever    *)
(* has the baseline tools add and userInfoOctokit registered; the set      *)
(* registered for a session is fixed by init() and never changes after;    *)
(* and every step that puts or deletes a key of the store is a tool call   *)
(* of an allowed login and of no other login.                              *)
C9_AuthorizationGate ==
    [][/\ \A login \in Logins \ ALLOWED_USERNAMES : tools'[login] \subseteq BaselineTools
       /\ \A login \in Logins : tools[login] # {} => tools'[login] = tools[login]
       /\ KV' # KV
          => /\ \E login \in ALLOWED_USERNAMES : StepBy(login)
             /\ \A login \in Logins \ ALLOWED_USERNAMES : ~StepBy(login)]_vars

\* the login outside the allow-list has its session and its two tools,
\* beside an allowed login whose calls have filled the store
C9_Witness ==
    /\ tools["octocat"] = BaselineTools
    /\ \E login \in ALLOWED_USERNAMES, id \in IdArgs :
         /\ PrivilegedTools \subseteq tools[login]
         /\ HasProject(KV, login, id)

-----------------------------------------------------------------------------
(* Key schema: the four kinds of key, the key the code reads a kind from   *)
(* and the key it writes the kind to.                                      *)

KeyKinds == {"project index", "project record", "todo index", "todo record"}

\* the (owner, kind, id) triples; an owner has one project index
KeyTriples ==
    {<<owner, kind, id>> : owner \in Logins, kind \in KeyKinds \ {"project index"},
                           id \in IdArgs}
    \cup {<<owner, "project index", "">> : owner \in Logins}

\* the key of KV.get for the triple
ReadKey(x) ==
    CASE x[2] = "project index" -> ProjectListKey(x[1])
      [] x[2] = "project record" -> ProjectKey(x[3], x[1])
      [] x[2] = "todo index" -> TodoListKey(x[3], x[1])
      [] x[2] = "todo record" -> TodoKey(x[1], x[3])

\* the key of KV.put and KV.delete for the triple
WriteKey(x) ==
    CASE x[2] = "project index" -> ProjectListPutKey(x[1])
      [] x[2] = "project record" -> ProjectKey(x[3], x[1])
      [] x[2] = "todo index" -> TodoListKey(x[3], x[1])
      [] x[2] = "todo record" -> TodoKey(x[1], x[3])

(* C11: key schema injectivity.  No two distinct (owner, kind, id) triples *)
(* map to the same store key, for the keys the code reads and the keys it  *)
(* writes: every key in the store is the key one triple is written to, no  *)
(* other triple is written to or read from it (so the project-index key    *)
(* written for an owner is not the one written for another owner), and it  *)
(* is the key that triple is read from.                                    *)
C11_KeySchemaInjective ==
    /\ \A x \in KeyTriples : \A y \in KeyTriples \ {x} : ReadKey(x) # ReadKey(y)
    /\ \A k \in DOMAIN KV :
         \E x \in KeyTriples :
           /\ WriteKey(x) = k
           /\ ReadKey(x) = k
           /\ \A y \in KeyTriples \ {x} : WriteKey(y) # k /\ ReadKey(y) # k

-----------------------------------------------------------------------------
\* the Project Index as createProject and delete_project write it
ProjectListWritten(kv, login) ==
    IF KVhas(kv, ProjectListPutKey(login))
    THEN JSONparse(kv[ProjectListPutKey(login)])
    ELSE <<>>

\* the step is one of the invocation in slot c: a store call of it, or its stop
StepOf(c) ==
    /\ InFlight(c)
    /\ <<calls'[c].pc, calls'[c].list, calls'[c].todos>>
           # <<calls[c].pc, calls[c].list, calls[c].todos>>

(* C12: children before parent in delete_project(P).  In every state the   *)
(* call passes through, which are the states it may stop in between two    *)
(* store calls, if P's Project record is absent then the owner has no Todo  *)
(* record whose projectId is P: when no invocation has begun while another *)
(* was in flight, every step of a delete_project invocation leads to such  *)
(* a state.                                                                *)
C12_ChildrenBeforeParent ==
    [][\A c \in Slots :
         (~overlapped' /\ calls[c].tool = "delete_project" /\ StepOf(c))
         => (~HasProject(KV', calls[c].login, calls[c].projectId)
             => \A id \in StepIdArgs :
                  HasTodo(KV', calls[c].login, id)
                  => TodoOf(KV', calls[c].login, id).projectId # calls[c].projectId)]_vars

(* C13: record before index on create.  The put of the record precedes the *)
(* put of the index: every step of a createProject or create_todo          *)
(* invocation, its stopping between two of its store calls included, leads *)
(* to a state where the index the invocation writes holds the new id only  *)
(* if the record of that id is in the store, and the index is put only     *)
(* when the record is there.                                               *)
C13_RecordBeforeIndex ==
    [][\A c \in Slots :
         StepOf(c)
         => \A id \in {calls[c].id, calls'[c].id} \ {""} :
              /\ calls[c].tool = "createProject"
                 => /\ id \in Range(ProjectListWritten(KV', calls[c].login))
                       => HasProject(KV', calls[c].login, id)
                    /\ At(c, "createProject", "putProjectList")
                       => HasProject(KV, calls[c].login, id)
              /\ calls[c].tool = "create_todo"
                 => /\ id \in Range(getTodoList(KV', calls[c].login, calls[c].projectId))
                       => HasTodo(KV', calls[c].login, id)
                    /\ At(c, "create_todo", "putTodoList")
                       => HasTodo(KV, calls[c].login, id)]_vars

\* a create_todo invocation has put its record and not yet its index
C13_Witness ==
    \E c \in Slots :
        /\ At(c, "create_todo", "putTodoList")
        /\ HasTodo(KV, calls[c].login, calls[c].id)
        /\ calls[c].id \notin Range(getTodoList(KV, calls[c].login, calls[c].projectId))

-----------------------------------------------------------------------------
(* C14: I2 at rest.  After any sequence of completed tool calls of one     *)
(* owner, none overlapping another, every id in the Todo Index of a        *)
(* project P has a Todo record under the same owner whose projectId is P.  *)
C14_I2AtRest ==
    \A login \in ALLOWED_USERNAMES, projectId \in IdArgs :
        \A id \in Range(getTodoList(KV, login, projectId)) :
            /\ HasTodo(KV, login, id)
            /\ TodoOf(KV, login, id).projectId = projectId

\* a Todo Index still holds an id after a todo of its project was deleted
C14_Witness ==
    \E login \in ALLOWED_USERNAMES, projectId \in IdArgs :
        /\ HasProject(KV, login, projectId)
        /\ getTodoList(KV, login, projectId) # <<>>
        /\ \E id \in Range(IssuedIds) :
             ~HasTodo(KV, login, id) /\ ~HasProject(KV, login, id)

-----------------------------------------------------------------------------
\* no handler is suspended at an await
AtRest == \A c \in Slots : ~InFlight(c)

\* the step is the last of the create_todo in slot c: the put of the list
PutsTodoList(c) == At(c, "create_todo", "putTodoList") /\ calls'[c].pc = "done"

(* C15: lost-update race.  When a create_todo puts the Todo Index it read  *)
(* before another create_todo of the same owner on the same project wrote  *)
(* it, its list overwrites the other's in full: the index becomes the list *)
(* it read with its own id appended, every id written to the index since   *)
(* its read is no longer in the index while the Todo record of that id     *)
(* stays, its own Todo record is in the store, and the call returns its    *)
(* todo and raises nothing.                                                *)
C15_LostUpdate ==
    [][\A c \in Slots :
         PutsTodoList(c)
         => LET login == calls[c].login
                projectId == calls[c].projectId
                written == Range(getTodoList(KV, login, projectId)) \ Range(calls[c].list)
            IN /\ getTodoList(KV', login, projectId) = Append(calls[c].list, calls[c].id)
               /\ \A id \in written :
                    /\ id \notin Range(getTodoList(KV', login, projectId))
                    /\ HasTodo(KV, login, id) => HasTodo(KV', login, id)
               /\ HasTodo(KV, login, calls[c].id) => HasTodo(KV', login, calls[c].id)
               /\ ~CreateTodoReturn(calls[c]).raised
               /\ CreateTodoReturn(calls[c]).text = calls[c].text]_vars

\* at rest after two overlapping create_todo on one project: both Todo
\* records are in the store and the Todo Index holds only one of the two ids
C15_Witness ==
    /\ AtRest
    /\ overlapped
    /\ \E login \in StepCallers, projectId \in StepIdArgs :
         /\ HasProject(KV, login, projectId)
         /\ \E first \in StepIdArgs : \E second \in StepIdArgs \ {first} :
              /\ HasTodo(KV, login, first) /\ HasTodo(KV, login, second)
              /\ TodoOf(KV, login, first).projectId = projectId
              /\ TodoOf(KV, login, second).projectId = projectId
              /\ getTodoList(KV, login, projectId) = <<second>>

-----------------------------------------------------------------------------
\* the Todo Index of projectId holds id and id has no Todo record
Dangling(kv, login, projectId, id) ==
    id \in Range(getTodoList(kv, login, projectId)) /\ ~HasTodo(kv, login, id)

\* the stores a tool call of login, run on kv to completion, may leave
AfterOneCall(kv, login) ==
    {createProject(kv, login, name, description, randomUUID(issued), now).kv :
        name \in Names, description \in ProjectDescriptions}
    \cup {create_todo(kv, login, projectId, title, opt.description, opt.priority,
                      randomUUID(issued), now).kv :
            projectId \in StepIdArgs, title \in Titles, opt \in CreateOptions}
    \cup {update_todo(kv, login, todoId, title, opt.description, opt.status,
                      opt.priority, now).kv :
            todoId \in StepIdArgs, title \in NewTitles, opt \in UpdateOptions}
    \cup {delete_todo(kv, login, todoId).kv : todoId \in StepIdArgs}
    \cup {delete_project(kv, login, projectId).kv : projectId \in StepIdArgs}

(* C16: dangling index entry under interleaving.  A state at rest in which *)
(* a Todo Index holds an id with no Todo record is reached only when some  *)
(* invocation began while another was in flight (C16_Witness: a create_todo *)
(* overlapping a delete_todo of another todo of the project reaches one);  *)
(* and the entry is there to stay: no tool call run to completion from     *)
(* such a state removes it.                                                *)
C16_DanglingOnlyIfInterleaved ==
    AtRest
    => \A login \in StepCallers, projectId \in StepIdArgs, id \in StepIdArgs :
         Dangling(KV, login, projectId, id)
         => /\ overlapped
            /\ \A kv \in AfterOneCall(KV, login) : Dangling(kv, login, projectId, id)

\* at rest: the project's Todo Index holds a deleted todo's id next to the
\* id of a todo that was created while the other was being deleted
C16_Witness ==
    /\ AtRest
    /\ \E login \in StepCallers, projectId \in StepIdArgs :
         \E deleted \in StepIdArgs : \E created \in StepIdArgs \ {deleted} :
           /\ HasProject(KV, login, projectId)
           /\ Dangling(KV, login, projectId, deleted)
           /\ HasTodo(KV, login, created)
           /\ getTodoList(KV, login, projectId) = <<deleted, created>>

-----------------------------------------------------------------------------
\* no id is in the list twice
NoDuplicates(list) ==
    \A i \in DOMAIN list : \A j \in DOMAIN list : list[i] = list[j] => i = j

(* C17: no duplicates in an index.  In every state tool calls reach, their *)
(* store calls interleaved or not, with every create drawing a fresh id,   *)
(* no Project Index (the list getProjectList reads and the list the        *)
(* creates and deletes put) and no Todo Index holds the same id twice.     *)
C17_NoDuplicateIds ==
    \A login \in StepCallers :
        /\ NoDuplicates(getProjectList(KV, login))
        /\ NoDuplicates(ProjectListWritten(KV, login))
        /\ \A projectId \in StepIdArgs : NoDuplicates(getTodoList(KV, login, projectId))

\* a Todo Index holds two ids, put there by invocations that overlapped
C17_Witness ==
    /\ overlapped
    /\ \E login \in StepCallers, projectId \in StepIdArgs :
         /\ Len(getTodoList(KV, login, projectId)) = 2
         /\ ProjectListWritten(KV, login) # <<>>

-----------------------------------------------------------------------------
\* the Project records of the ids of the Project Index that resolve, in
\* index order
ResolvingProjects(kv, login) ==
    LET Resolves(id) == HasProject(kv, login, id)
        ids == SelectSeq(getProjectList(kv, login), Resolves)
    IN [i \in 1..Len(ids) |-> ProjectOf(kv, login, ids[i])]

\* the Todo records of the ids of projectId's Todo Index that resolve and
\* pass the status filter, in index order
ResolvingTodos(kv, login, projectId, status) ==
    LET Resolves(id) ==
            /\ HasTodo(kv, login, id)
            /\ status \in {Undefined, Some("all")} \/ Some(TodoOf(kv, login, id).status) = status
        ids == SelectSeq(getTodoList(kv, login, projectId), Resolves)
    IN [i \in 1..Len(ids) |-> TodoOf(kv, login, ids[i])]

(* C18: tolerant listing.  On every store, one whose indexes hold ids with *)
(* no record included, get_project_list, get_project and list_todos (of a  *)
(* project that exists) return exactly the records of the index ids that   *)
(* resolve, in index order, skipping the others; they do not raise and     *)
(* they leave the store as it is.                                          *)
C18_TolerantListing ==
    \A login \in {StoreOwner} :
        /\ LET out == get_project_list(KV, login)
           IN /\ ReturnedArray(out.res)
              /\ out.res.text = ProjectsText(ResolvingProjects(KV, login))
              /\ out.kv = KV
        /\ \A projectId \in StoreProjectIds :
             HasProject(KV, login, projectId)
             => /\ LET out == get_project(KV, login, projectId)
                   IN /\ ReturnedObject(out.res)
                      /\ JSONparse(out.res.text).project
                           = ProjectText(ProjectOf(KV, login, projectId))
                      /\ JSONparse(out.res.text).todos
                           = TodosText(ResolvingTodos(KV, login, projectId, Undefined))
                      /\ out.kv = KV
                /\ \A status \in StatusFilters :
                     LET out == list_todos(KV, login, projectId, status)
                     IN /\ ReturnedArray(out.res)
                        /\ out.res.text
                             = TodosText(ResolvingTodos(KV, login, projectId, status))
                        /\ out.kv = KV

\* the Project Index and a Todo Index each hold an id with no record ahead
\* of an id that resolves, and the listing tools are registered
C18_Witness ==
    \E login \in {StoreOwner}, projectId \in StoreProjectIds :
        /\ {"get_project_list", "get_project", "list_todos"} \subseteq tools[login]
        /\ HasProject(KV, login, projectId)
        /\ Len(getProjectList(KV, login)) >= 2
        /\ ~HasProject(KV, login, getProjectList(KV, login)[1])
        /\ getProjectList(KV, login)[2] = projectId
        /\ Len(getTodoList(KV, login, projectId)) >= 2
        /\ ~HasTodo(KV, login, getTodoList(KV, login, projectId)[1])
        /\ HasTodo(KV, login, getTodoList(KV, login, projectId)[2])

-----------------------------------------------------------------------------
(* C19: frame of update_todo.  A successful update_todo writes the Todo    *)
(* record key of the given id and no other key: the store it leaves has    *)
(* the keys it found, every Project Index, Todo Index, Project record and  *)
(* every other Todo record has the value it had, and the updated record    *)
(* keeps its id, projectId and createdAt.                                  *)
C19_UpdateTodoFrame ==
    \A login \in ALLOWED_USERNAMES, todoId \in IdArgs, title \in NewTitles,
       opt \in UpdateOptions, t \in ClockReads(now) :
        HasTodo(KV, login, todoId)
        => LET out == update_todo(KV, login, todoId, title, opt.description,
                                  opt.status, opt.priority, t)
           IN /\ DOMAIN out.kv = DOMAIN KV
              /\ \A key \in DOMAIN KV \ {TodoKey(login, todoId)} : out.kv[key] = KV[key]
              /\ getProjectList(out.kv, login) = getProjectList(KV, login)
              /\ ProjectListWritten(out.kv, login) = ProjectListWritten(KV, login)
              /\ \A id \in IdArgs :
                   /\ getTodoList(out.kv, login, id) = getTodoList(KV, login, id)
                   /\ HasProject(out.kv, login, id) = HasProject(KV, login, id)
                   /\ HasTodo(out.kv, login, id) = HasTodo(KV, login, id)
              /\ TodoOf(out.kv, login, todoId).id = TodoOf(KV, login, todoId).id
              /\ TodoOf(out.kv, login, todoId).projectId = TodoOf(KV, login, todoId).projectId
              /\ TodoOf(out.kv, login, todoId).createdAt = TodoOf(KV, login, todoId).createdAt

\* a todo has been updated while another todo follows it in the Todo Index
\* of their project
C19_Witness ==
    \E login \in ALLOWED_USERNAMES, todoId \in IdArgs, other \in IdArgs :
        /\ HasTodo(KV, login, todoId) /\ HasTodo(KV, login, other)
        /\ TodoOf(KV, login, todoId).title \in NewTitles
        /\ getTodoList(KV, login, TodoOf(KV, login, todoId).projectId) = <<todoId, other>>

-----------------------------------------------------------------------------
\* list without the first occurrence of id, the rest in order
WithoutFirst(list, id) ==
    IF id \notin Range(list)
    THEN list
    ELSE LET first == CHOOSE i \in DOMAIN list :
                        list[i] = id /\ \A j \in 1..(i - 1) : list[j] # id
         IN [k \in 1..(Len(list) - 1) |-> IF k < first THEN list[k] ELSE list[k + 1]]

\* list without any occurrence of id, the rest in order
WithoutAll(list, id) == LET Other(x) == x # id IN SelectSeq(list, Other)

\* the ids of list that have no Todo record, in order
Unresolved(kv, login, list) ==
    LET Misses(x) == ~HasTodo(kv, login, x) IN SelectSeq(list, Misses)

(* C20 as stated: index removal removes only the first matching occurrence. *)
(* Both the removal delete_todo does and the one the delete_project cascade *)
(* does (deleteTodo) leave the Todo Index as the list they found without   *)
(* the first occurrence of the id, later occurrences and the order of the  *)
(* other ids unchanged; an absent index key counts as the empty list.      *)
C20_RemovesFirstOccurrence ==
    \A login \in {StoreOwner}, todoId \in StoreTodoIds :
        LET projectId == StoreProjectId
            list == getTodoList(KV, login, projectId)
        IN /\ getTodoList(deleteTodo(KV, login, projectId, todoId), login, projectId)
                = WithoutFirst(list, todoId)
           /\ HasTodo(KV, login, todoId)
              => getTodoList(delete_todo(KV, login, todoId).kv, login, projectId)
                   = WithoutFirst(list, todoId)

(* C20, amended: delete_todo leaves the Todo Index as the list it found    *)
(* without any occurrence of the id; one deleteTodo of the cascade leaves  *)
(* it without the first occurrence only, and the cascade of delete_project *)
(* as a whole, which runs deleteTodo once per resolving index entry,       *)
(* leaves the ids that have no Todo record; in each case the other ids     *)
(* keep their order, and an absent index key counts as the empty list and  *)
(* is written as one.                                                      *)
C20_IndexRemoval ==
    \A login \in {StoreOwner}, todoId \in StoreTodoIds :
        LET projectId == StoreProjectId
            list == getTodoList(KV, login, projectId)
            key == TodoListKey(projectId, login)
        IN /\ LET kv == deleteTodo(KV, login, projectId, todoId)
              IN /\ KVhas(kv, key)
                 /\ getTodoList(kv, login, projectId) = WithoutFirst(list, todoId)
                 /\ ~KVhas(KV, key) => kv[key] = StringifyArray(<<>>)
           /\ HasTodo(KV, login, todoId)
              => LET kv == delete_todo(KV, login, todoId).kv
                 IN /\ KVhas(kv, key)
                    /\ getTodoList(kv, login, projectId) = WithoutAll(list, todoId)
                    /\ ~KVhas(KV, key) => kv[key] = StringifyArray(<<>>)
           /\ HasProject(KV, login, projectId)
              => LET kv == delete_project(KV, login, projectId).kv
                 IN getTodoList(kv, login, projectId) = Unresolved(KV, login, list)

\* the Todo Index holds the id of a todo that has a record twice, another
\* id in between, and delete_todo and delete_project are registered
C20_Witness ==
    \E login \in {StoreOwner}, todoId \in StoreTodoIds, other \in StoreTodoIds :
        /\ other # todoId
        /\ {"delete_todo", "delete_project"} \subseteq tools[login]
        /\ HasProject(KV, login, StoreProjectId)
        /\ HasTodo(KV, login, todoId)
        /\ getTodoList(KV, login, StoreProjectId) = <<todoId, other, todoId>>

-----------------------------------------------------------------------------
(* C21 *)

\* get_todo(todoId) by login raises not-found on the store kv
GetTodoRaisesNotFound(kv, login, todoId) ==
    RaisedWith(get_todo(kv, login, todoId).res, TodoNotFound(todoId))

\* C21: deletion is final.  Ids are handed out once and a Todo record is put
\* in the step that draws its id, so get_todo raises not-found for an id
\* handed out as a todo's only once delete_todo has removed the record and
\* confirmed; the claim is that from then on no step of the owner's calls,
\* an update_todo that read the record before the deletion included, makes
\* get_todo of that id return a Todo again.
C21_DeletionIsFinal ==
    [][\A login \in StepCallers, todoId \in Range(IssuedIds) :
          GetTodoRaisesNotFound(KV, login, todoId)
            => GetTodoRaisesNotFound(KV', login, todoId)]_vars

====
